---------------------------- MODULE Spec2Model ----------------------------
(***************************************************************************)
(* Conversation state machine of the survey server (ofloody/poll-agents):  *)
(* one AgentSession driven by get_welcome_message and process_input, with  *)
(* the verification-code issuer, the wall clock and the response store.    *)
(*                                                                         *)
(* Text is modelled as a sequence of one-character strings, so that        *)
(* str.strip, str.lower and the two regular expressions are computed, not  *)
(* assumed.  None is the one-element sequence <<"None">>, which no text    *)
(* line equals.  Times are whole seconds.                                  *)
(***************************************************************************)
EXTENDS Integers, Sequences, FiniteSets, TLC

VARIABLES
    settings,    \* VerificationSettings of the running server
    session,     \* the AgentSession the state machine is bound to
    now,         \* the wall clock read by datetime.now()
    call,        \* the state-machine call made by the last step, if any
    responses,   \* what the response repository holds
    observed,    \* what the agent has submitted so far, as an observer counts it
    conns,       \* the server's connections: each handle_connection task
    active_sessions, \* PollAgentsServer.active_sessions: session_id -> session
    saves        \* the calls of LocalResponseRepository.save in progress

vars == <<settings, session, now, call, responses, observed, conns, active_sessions,
          saves>>

\* the state of the server, which the state machine taken alone leaves alone
server_vars == <<conns, active_sessions>>

\* the state of the state machine taken alone
machine_vars == <<session, call, observed>>

-----------------------------------------------------------------------------
(* Bounds of the model *)

\* the clock stops advancing here
MaxTime == 3

\* digits secrets.choice is let to draw (a sample of string.digits)
DrawnDigits == {"0", "7"}

\* configured values of VERIFICATION_CODE_LENGTH that are explored
ConfiguredCodeLengths == {4, 6}

\* configured values of VERIFICATION_CODE_EXPIRY_SECONDS that are explored
ConfiguredExpirySeconds == {2}

-----------------------------------------------------------------------------
(* Characters *)

lower_letters ==
    <<"a","b","c","d","e","f","g","h","i","j","k","l","m",
      "n","o","p","q","r","s","t","u","v","w","x","y","z">>

upper_letters ==
    <<"A","B","C","D","E","F","G","H","I","J","K","L","M",
      "N","O","P","Q","R","S","T","U","V","W","X","Y","Z">>

string_digits == {"0","1","2","3","4","5","6","7","8","9"}

Range(f) == {f[i] : i \in DOMAIN f}

Letters == Range(lower_letters) \cup Range(upper_letters)

\* what str.strip() removes
Whitespace == {" ", "\t", "\n", "\r", "\f"}

None == <<"None">>

NoTime == -1

\* str.lower() of one character
LowerChar(c) ==
    IF c \in Range(upper_letters)
    THEN lower_letters[CHOOSE i \in DOMAIN upper_letters : upper_letters[i] = c]
    ELSE c

lower(s) == [i \in DOMAIN s |-> LowerChar(s[i])]

\* str.strip(): drop leading and trailing whitespace
strip(s) ==
    LET keep == {i \in DOMAIN s : s[i] \notin Whitespace}
    IN  IF keep = {} THEN <<>>
        ELSE LET first == CHOOSE i \in keep : \A j \in keep : i <= j
                 last  == CHOOSE i \in keep : \A j \in keep : j <= i
             IN  SubSeq(s, first, last)

\* Python's "$": the end of the text, or just before one trailing newline
DollarEnds(s) ==
    {Len(s)} \cup (IF Len(s) >= 1 /\ s[Len(s)] = "\n" THEN {Len(s) - 1} ELSE {})

AllIn(s, from, to, chars) == \A i \in from..to : s[i] \in chars

EmailLocalChars == Letters \cup string_digits \cup {".", "_", "%", "+", "-"}

EmailDomainChars == Letters \cup string_digits \cup {".", "-"}

\* EMAIL_REGEX.match: ^[a-zA-Z0-9._%+-]+@[a-zA-Z0-9.-]+\.[a-zA-Z]{2,}$
EMAIL_REGEX(s) ==
    \E e \in DollarEnds(s) : \E at \in 2..e : \E dot \in (at + 2)..e :
        /\ s[at] = "@"
        /\ s[dot] = "."
        /\ AllIn(s, 1, at - 1, EmailLocalChars)
        /\ AllIn(s, at + 1, dot - 1, EmailDomainChars)
        /\ e - dot >= 2
        /\ AllIn(s, dot + 1, e, Letters)

\* the pattern without its "$": whatever starts with y or n matches
YES_NO_REGEX_Unanchored(s) ==
    /\ Len(s) >= 1
    /\ LowerChar(s[1]) \in {"y", "n"}

\* YES_NO_REGEX.match: ^[yn]$ with re.IGNORECASE
YES_NO_REGEX(s) ==
    /\ 1 \in DollarEnds(s)
    /\ LowerChar(s[1]) \in {"y", "n"}


-----------------------------------------------------------------------------
(* Domain model *)

\* ConversationState, in declaration order
ConversationState ==
    <<"WELCOME", "AWAITING_EMAIL", "AWAITING_VERIFICATION", "ASKING_QUESTION_1",
      "ASKING_QUESTION_2", "ASKING_QUESTION_3", "COMPLETED", "DISCONNECTED">>

\* the active QuestionSet the orchestrator binds to the session
ActiveQuestionSet == [id |-> "qs-1", questions |-> <<"Q1", "Q2", "Q3">>]

\* questions[i] with Python's indices 0, 1, 2
Question(question_set, i) == question_set.questions[i + 1]

NoAnswers == [i \in {} |-> FALSE]

\* AgentSession(session_id=...), then session.question_set = question_set
AgentSession ==
    [state                     |-> "WELCOME",
     email                     |-> None,
     verification_code         |-> None,
     verification_code_created |-> NoTime,
     verification_attempts     |-> 0,
     question_set              |-> ActiveQuestionSet,
     answers                   |-> NoAnswers]

\* AgentResponse(question_set_id, agent_email, answers, completed_at)
AgentResponse(question_set_id, agent_email, answers, completed_at) ==
    [question_set_id |-> question_set_id,
     agent_email     |-> agent_email,
     answers         |-> answers,
     completed_at    |-> completed_at]

\* an assignment that always writes the first slot
SetAnswer_AtZero(answers, i, v) ==
    [j \in (DOMAIN answers) \cup {0} |-> IF j = 0 THEN v ELSE answers[j]]

\* session.answers[i] = v
SetAnswer(answers, i, v) ==
    [j \in (DOMAIN answers) \cup {i} |-> IF j = i THEN v ELSE answers[j]]

-----------------------------------------------------------------------------
(* Prompts.  A prompt is the text a call returns; the model keeps what     *)
(* varies in it: which prompt it is, the number it prints, the question it *)
(* quotes and the address it names.                                        *)

Prompt(kind, n, question, to) == [kind |-> kind, n |-> n, question |-> question, to |-> to]

WelcomePrompt == Prompt("welcome", 0, "", None)

InvalidEmailPrompt == Prompt("invalid_email", 0, "", None)

CodeSentPrompt(email) == Prompt("code_sent", 0, "", email)

CodeExpiredPrompt == Prompt("code_expired", 0, "", None)

VerifiedPrompt(question) == Prompt("verified", 1, question, None)

TooManyAttemptsPrompt == Prompt("too_many_attempts", 0, "", None)

IncorrectCodePrompt(remaining) == Prompt("incorrect_code", remaining, "", None)

InvalidAnswerPrompt(question) == Prompt("invalid_answer", 0, question, None)

ResponseRecordedPrompt(n, question) == Prompt("response_recorded", n, question, None)

\* the empty string: the summary is sent separately
EmptyPrompt == Prompt("empty", 0, "", None)

SessionErrorPrompt == Prompt("session_error", 0, "", None)

\* no prompt: the call raised
NoPrompt == Prompt("raised", 0, "", None)

\* what a call leaves behind: the session, the prompt returned, the mails
\* handed to the email collaborator, the responses handed to save, and
\* whether the call raised
Outcome(s, reply, sent, saved, raised) ==
    [session |-> s, reply |-> reply, sent |-> sent, saved |-> saved, raised |-> raised]

-----------------------------------------------------------------------------
(* Verification code issuer *)

\* default of generate_verification_code's length parameter
DefaultCodeLength == 6

\* EmailService.generate_verification_code: the codes it may return.  Every
\* character is a digit; the draws explored repeat one digit.
generate_verification_code(length) ==
    {[i \in 1..length |-> d] : d \in DrawnDigits}

\* EmailService.send_verification_email: hands the mail to SMTP and returns
\* whether that worked; a failure is caught, never raised
send_verification_email(to_email, code, smtp_ok) ==
    [to |-> to_email, code |-> code, delivered |-> smtp_ok]

-----------------------------------------------------------------------------
(* ConversationStateMachine *)

\* the number of wrong codes that sends the agent back to the email step
MaxAttempts == 3

\* a welcome that leaves the session in WELCOME
get_welcome_message_KeepsState(s) == Outcome(s, WelcomePrompt, <<>>, <<>>, FALSE)

\* get_welcome_message
get_welcome_message(s) ==
    Outcome([s EXCEPT !.state = "AWAITING_EMAIL"], WelcomePrompt, <<>>, <<>>, FALSE)

\* the call self.email_service.generate_verification_code() of
\* _handle_email_input: no length is passed
IssuedCodes == generate_verification_code(DefaultCodeLength)

\* the address stored before it is validated
_handle_email_input_StoresFirst(s, email, t, code, smtp_ok) ==
    IF ~EMAIL_REGEX(email)
    THEN Outcome([s EXCEPT !.email = email], InvalidEmailPrompt, <<>>, <<>>, FALSE)
    ELSE Outcome([s EXCEPT !.email = email,
                           !.verification_code = code,
                           !.verification_code_created = t,
                           !.state = "AWAITING_VERIFICATION"],
                 CodeSentPrompt(email),
                 <<send_verification_email(email, code, smtp_ok)>>,
                 <<>>, FALSE)

\* the step taken only when the mail went out
_handle_email_input_StopsOnFailure(s, email, t, code, smtp_ok) ==
    IF ~EMAIL_REGEX(email) \/ ~smtp_ok
    THEN Outcome(s, InvalidEmailPrompt, <<>>, <<>>, FALSE)
    ELSE Outcome([s EXCEPT !.email = email,
                           !.verification_code = code,
                           !.verification_code_created = t,
                           !.state = "AWAITING_VERIFICATION"],
                 CodeSentPrompt(email),
                 <<send_verification_email(email, code, smtp_ok)>>,
                 <<>>, FALSE)

\* _handle_email_input; code is the code drawn, smtp_ok whether SMTP worked
_handle_email_input(s, email, t, code, smtp_ok) ==
    IF ~EMAIL_REGEX(email)
    THEN Outcome(s, InvalidEmailPrompt, <<>>, <<>>, FALSE)
    ELSE Outcome([s EXCEPT !.email = email,
                           !.verification_code = code,
                           !.verification_code_created = t,
                           !.state = "AWAITING_VERIFICATION"],
                 CodeSentPrompt(email),
                 <<send_verification_email(email, code, smtp_ok)>>,
                 <<>>, FALSE)

\* a code that never expires
Expired_Never(created, expiry, t) == FALSE

\* a code that has always expired
Expired_Always(created, expiry, t) == TRUE

\* expiry that sets in at the deadline itself
Expired_AtDeadline(created, expiry, t) == t >= created + expiry

\* expiry counted in minutes
Expired_InMinutes(created, expiry, t) == t > created + 60 * expiry

\* datetime.now() > verification_code_created + timedelta(seconds=expiry)
Expired(created, expiry, t) == t > created + expiry

\* an expiry reset that leaves the stale code on the session
ExpiryReset_KeepsCode(s) ==
    [s EXCEPT !.state = "AWAITING_EMAIL", !.verification_attempts = 0]

\* the reset of the expired branch
ExpiryReset(s) ==
    [s EXCEPT !.state = "AWAITING_EMAIL",
              !.verification_code = None,
              !.verification_attempts = 0]

\* a lockout reset that forgets the address as well
LockoutReset_ClearsEmail(s) ==
    [s EXCEPT !.state = "AWAITING_EMAIL",
              !.email = None,
              !.verification_code = None,
              !.verification_attempts = 0]

\* a lockout reset that leaves the attempt counter where it was
LockoutReset_KeepsAttempts(s) ==
    [s EXCEPT !.state = "AWAITING_EMAIL", !.verification_code = None]

\* the reset of the too-many-attempts branch; the counter has been
\* incremented already
LockoutReset(s) ==
    [s EXCEPT !.state = "AWAITING_EMAIL",
              !.verification_code = None,
              !.verification_attempts = 0]

\* the attempts left, taken from the counter before it was incremented
Remaining_BeforeIncrement(attempts) == MaxAttempts - (attempts - 1)

\* remaining = 3 - self.session.verification_attempts
Remaining(attempts) == MaxAttempts - attempts

\* _handle_verification_input
_handle_verification_input(s, code, t, expiry) ==
    IF s.verification_code_created # NoTime
       /\ Expired(s.verification_code_created, expiry, t)
    THEN Outcome(ExpiryReset(s), CodeExpiredPrompt, <<>>, <<>>, FALSE)
    ELSE IF code = s.verification_code
    THEN Outcome([s EXCEPT !.state = "ASKING_QUESTION_1"],
                 VerifiedPrompt(Question(s.question_set, 0)), <<>>, <<>>, FALSE)
    ELSE LET counted == [s EXCEPT !.verification_attempts = @ + 1]
         IN  IF counted.verification_attempts >= MaxAttempts
             THEN Outcome(LockoutReset(counted), TooManyAttemptsPrompt, <<>>, <<>>, FALSE)
             ELSE Outcome(counted,
                          IncorrectCodePrompt(Remaining(counted.verification_attempts)),
                          <<>>, <<>>, FALSE)

\* a comparison that forgets the case
IsYes_CaseSensitive(answer) == answer = <<"y">>

\* answer.lower() == "y"
IsYes(answer) == lower(answer) = <<"y">>

\* a table that sends both questions on to the last one
NextQuestionState_SkipsAhead(question_index) == "ASKING_QUESTION_3"

\* the next_state table of _handle_question_answer
NextQuestionState(question_index) ==
    IF question_index = 0 THEN "ASKING_QUESTION_2" ELSE "ASKING_QUESTION_3"

\* _handle_question_answer, for question_index 0 and 1
_handle_question_answer(s, answer, question_index) ==
    IF ~YES_NO_REGEX(answer)
    THEN Outcome(s, InvalidAnswerPrompt(Question(s.question_set, question_index)),
                 <<>>, <<>>, FALSE)
    ELSE Outcome([s EXCEPT !.answers = SetAnswer(@, question_index, IsYes(answer)),
                           !.state = NextQuestionState(question_index)],
                 ResponseRecordedPrompt(question_index + 2,
                                        Question(s.question_set, question_index + 1)),
                 <<>>, <<>>, FALSE)

\* _handle_final_question_answer; save_ok is whether the repository's save
\* returned (it raises otherwise)
_handle_final_question_answer(s, answer, t, save_ok) ==
    IF ~YES_NO_REGEX(answer)
    THEN Outcome(s, InvalidAnswerPrompt(Question(s.question_set, 2)), <<>>, <<>>, FALSE)
    ELSE LET answers == SetAnswer(s.answers, 2, IsYes(answer))
             done    == [s EXCEPT !.answers = answers, !.state = "COMPLETED"]
         IN  IF ~({0, 1, 2} \subseteq DOMAIN answers)
             THEN \* answers[i] raises KeyError before save is reached
                  Outcome(done, NoPrompt, <<>>, <<>>, TRUE)
             ELSE LET response == AgentResponse(s.question_set.id, s.email,
                                                <<answers[0], answers[1], answers[2]>>, t)
                  IN  Outcome(done, IF save_ok THEN EmptyPrompt ELSE NoPrompt,
                              <<>>, <<response>>, ~save_ok)

\* get_summary: for each question of the QuestionSet, in order, the question
\* and whether the answer printed is Yes; self.session.answers.get(i, False)
\* prints No for an index without an answer
get_summary(s) ==
    [k \in 1..Len(s.question_set.questions) |->
        [question |-> s.question_set.questions[k],
         yes      |-> IF (k - 1) \in DOMAIN s.answers THEN s.answers[k - 1] ELSE FALSE,
         missing  |-> (k - 1) \notin DOMAIN s.answers]]

\* a dispatch that sends a completed session to the last question again
process_input_ResavesWhenDone(s, message, t, expiry, code, smtp_ok, save_ok) ==
    LET line == strip(message)
    IN  CASE s.state = "AWAITING_EMAIL" ->
                 _handle_email_input(s, line, t, code, smtp_ok)
          [] s.state = "AWAITING_VERIFICATION" ->
                 _handle_verification_input(s, line, t, expiry)
          [] s.state = "ASKING_QUESTION_1" -> _handle_question_answer(s, line, 0)
          [] s.state = "ASKING_QUESTION_2" -> _handle_question_answer(s, line, 1)
          [] s.state \in {"ASKING_QUESTION_3", "COMPLETED"} ->
                 _handle_final_question_answer(s, line, t, save_ok)
          [] OTHER -> Outcome(s, SessionErrorPrompt, <<>>, <<>>, FALSE)

\* process_input: strip the line, then dispatch on the session's state
process_input(s, message, t, expiry, code, smtp_ok, save_ok) ==
    LET line == strip(message)
    IN  CASE s.state = "AWAITING_EMAIL" ->
                 _handle_email_input(s, line, t, code, smtp_ok)
          [] s.state = "AWAITING_VERIFICATION" ->
                 _handle_verification_input(s, line, t, expiry)
          [] s.state = "ASKING_QUESTION_1" -> _handle_question_answer(s, line, 0)
          [] s.state = "ASKING_QUESTION_2" -> _handle_question_answer(s, line, 1)
          [] s.state = "ASKING_QUESTION_3" ->
                 _handle_final_question_answer(s, line, t, save_ok)
          [] OTHER -> Outcome(s, SessionErrorPrompt, <<>>, <<>>, FALSE)

-----------------------------------------------------------------------------
(* The lines an agent may send *)

ValidEmails == {<<"a", "@", "b", ".", "c", "o">>}

\* another valid address, with whitespace around it
PaddedEmails == {<<" ", "c", "@", "d", ".", "i", "o", "\n">>}

MalformedEmails ==
    {<<"a", "@", "b", ".", "c">>, <<"a", " ", "@", "b", ".", "c", "o">>}

CodeLines ==
    IssuedCodes \cup {<<"7", "7", "7", "7", "7", "7", "\n">>, <<"0", "0", "0", "0">>}

AnswerLines ==
    {<<"y">>, <<"n">>, <<"Y">>, <<"N">>, <<"N", "\n">>, <<"y", "e", "s">>}

BlankLines == {<<" ">>}

Messages ==
    ValidEmails \cup PaddedEmails \cup MalformedEmails \cup CodeLines
    \cup AnswerLines \cup BlankLines

-----------------------------------------------------------------------------
(* PollAgentsServer: the connections and the registry *)

\* the connections the server is given; each gets a session_id of its own
\* from uuid.uuid4(), here the connection's name
Conns == {"c1", "c2"}

\* question_set_repo.get_active() returning None
NoQuestionSet == [id |-> "None", questions |-> <<>>]

\* AgentSession(session_id=session_id): no QuestionSet bound yet
NewSession == [AgentSession EXCEPT !.question_set = NoQuestionSet]

NoOutcome == Outcome(NewSession, NoPrompt, <<>>, <<>>, FALSE)

\* what has gone out on the connection and what the handler has called
NothingDone ==
    [welcome_sent |-> 0, no_survey_sent |-> 0, summary_sent |-> 0,
     sent_after_save_failed |-> 0, welcome_calls |-> 0, read |-> FALSE,
     fed_unready |-> FALSE, fed_completed |-> FALSE, fed_busy |-> FALSE,
     saved |-> FALSE,
     save_failed |-> FALSE, deleted |-> 0]

\* a connection the server has not accepted yet
NotConnected ==
    [pc |-> "idle", open |-> FALSE, session |-> NewSession, active |-> "unknown",
     pending |-> NoOutcome, error |-> "none", did |-> NothingDone]

\* active_sessions = {}
NoSessions == [id \in {} |-> "c1"]

\* a registration under one key for every connection
Register_SharedKey(registry, session_id, owner) ==
    [id \in (DOMAIN registry) \cup {"c1"} |->
        IF id = "c1" THEN owner ELSE registry[id]]

\* self.active_sessions[session_id] = session; the entry refers to the
\* session object of connection owner
Register(registry, session_id, owner) ==
    [id \in (DOMAIN registry) \cup {session_id} |->
        IF id = session_id THEN owner ELSE registry[id]]

\* a cleanup that forgets the entry
Unregister_Forgets(registry, session_id) == registry

\* a cleanup that empties the registry
Unregister_ClearsAll(registry, session_id) == NoSessions

\* del self.active_sessions[session_id]
Unregister(registry, session_id) ==
    [id \in (DOMAIN registry) \ {session_id} |-> registry[id]]

\* the session as it stands while process_input awaits a collaborator: the
\* email step assigns the state after the send returns, the last question
\* has assigned COMPLETED before save is awaited
AtAwait(s, out) ==
    IF out.sent # <<>> THEN [out.session EXCEPT !.state = s.state] ELSE out.session

\* the lines the agents of the server send
ServerMessages ==
    ValidEmails \cup {<<"a", "@", "b", ".", "c">>} \cup IssuedCodes \cup {<<"y">>}

\* a loop that takes the next line while the call on the last one is
\* still awaiting its collaborator or its reply is still to be written
Reading_WhileBusy(conn) ==
    conn.pc \in {"read", "sending_email", "saving", "send_reply"}

\* async for message in websocket: the handler is back at the head of the
\* loop, the call on the previous line and the send of its reply behind it
Reading(conn) == conn.pc = "read"

\* a loop that never notices the closed connection
LoopEnds_Never(open) == FALSE

\* async for message in websocket: the loop ends once the connection is closed
LoopEnds(open) == ~open

\* a no-survey branch without its return: the handler goes on to bind the
\* (absent) QuestionSet and to welcome the agent
NoSurveyReturn_FallsThrough(conn) ==
    [conn EXCEPT !.session = get_welcome_message(@).session,
                 !.did.welcome_calls = @ + 1,
                 !.pc = "send_welcome"]

\* the return after the no-active-survey message: on to the finally block
NoSurveyReturn(conn) == [conn EXCEPT !.pc = "finally"]

\* a completion without its break: the loop reads on
AfterSummary_ReadsOn(conn) == [conn EXCEPT !.open = FALSE, !.pc = "read"]

\* await websocket.close(1000, "Survey complete"); break
AfterSummary(conn) == [conn EXCEPT !.open = FALSE, !.pc = "finally"]

\* except Exception as e: the exception is printed, then the finally block
Caught(conn) == [conn EXCEPT !.error = "caught", !.pc = "finally"]

-----------------------------------------------------------------------------
(* LocalResponseRepository: the flat file of responses *)

\* the sessions that complete at about the same time, each with one response
Savers == {"s1", "s2", "s3"}

\* the response of saver s; the responses differ in their address
ResponseOf(s) ==
    AgentResponse(ActiveQuestionSet.id, <<s, "@", "b", ".", "c", "o">>,
                  <<TRUE, FALSE, TRUE>>, 0)

\* no call of save yet; data is the list save has read from the file
NotSaving == [pc |-> "idle", data |-> <<>>]

\* data.append(response_dict); await self._write_all(data): the file holds
\* what this call read, and its response
WriteAll(data, response) == Append(data, response)

-----------------------------------------------------------------------------
(* State and steps *)

NoCall ==
    [op |-> "none", message |-> <<>>, now |-> 0, before |-> AgentSession,
     reply |-> NoPrompt, sent |-> <<>>, saved |-> <<>>, raised |-> FALSE]

\* the record of a call: what it was given and what it left behind
Called(op, message, t, before, out) ==
    [op |-> op, message |-> message, now |-> t, before |-> before,
     reply |-> out.reply, sent |-> out.sent, saved |-> out.saved, raised |-> out.raised]

\* the response repository after the saves of a call: a save that raised
\* stored nothing
Stored(store, out) == IF out.raised THEN store ELSE store \o out.saved

\* The observer's tally, kept from the lines and the clock alone: the wrong
\* codes submitted in time since the last mail went out, and whether each
\* answer accepted so far was a yes; the calls of the repository's save; the
\* mail that carries the code now in force (its address, its code, when it
\* went out); and the address of the mail whose code a line matched in time.
NoIssue == [to |-> None, code |-> None, at |-> NoTime]

NothingObserved ==
    [wrong |-> 0, given |-> <<>>, saves |-> 0, issued |-> NoIssue, verified |-> None]

ValidAnswers == {<<"y">>, <<"n">>, <<"Y">>, <<"N">>}

YesAnswers == {<<"y">>, <<"Y">>}

AskingStates == {"ASKING_QUESTION_1", "ASKING_QUESTION_2", "ASKING_QUESTION_3"}

InTime(s, t) == t <= s.verification_code_created + settings.code_expiry_seconds

Observe(o, s, message, t, out) ==
    LET line == strip(message)
        tallied ==
            IF out.sent # <<>> THEN [o EXCEPT !.wrong = 0]
            ELSE IF s.state = "AWAITING_VERIFICATION" /\ InTime(s, t)
                    /\ line # s.verification_code
            THEN [o EXCEPT !.wrong = IF @ < MaxAttempts + 1 THEN @ + 1 ELSE @]
            ELSE IF s.state \in AskingStates /\ line \in ValidAnswers /\ Len(o.given) < 3
            THEN [o EXCEPT !.given = Append(@, line \in YesAnswers)]
            ELSE o
        counted ==
            IF out.saved # <<>>
            THEN [tallied EXCEPT !.saves = IF @ < 2 THEN @ + 1 ELSE @]
            ELSE tallied
    IN  IF out.sent # <<>>
        THEN [counted EXCEPT !.issued = [to |-> out.sent[1].to,
                                         code |-> out.sent[1].code, at |-> t]]
        ELSE IF s.state = "AWAITING_VERIFICATION" /\ o.issued # NoIssue
                /\ t <= o.issued.at + settings.code_expiry_seconds
                /\ line = o.issued.code
        THEN [counted EXCEPT !.verified = o.issued.to]
        ELSE IF out.reply \in {CodeExpiredPrompt, TooManyAttemptsPrompt}
        THEN [counted EXCEPT !.issued = NoIssue]
        ELSE counted

Init ==
    /\ settings \in [code_length : ConfiguredCodeLengths,
                     code_expiry_seconds : ConfiguredExpirySeconds]
    /\ session = AgentSession
    /\ now = 0
    /\ call = NoCall
    /\ responses = <<>>
    /\ observed = NothingObserved
    /\ conns = [c \in Conns |-> NotConnected]
    /\ active_sessions = NoSessions
    /\ saves = [s \in Savers |-> NotSaving]

\* the orchestrator's welcome_msg = state_machine.get_welcome_message()
Welcome ==
    /\ session.state = "WELCOME"
    /\ LET out == get_welcome_message(session)
       IN  /\ session' = out.session
           /\ call' = Called("get_welcome_message", <<>>, now, session, out)
    /\ UNCHANGED <<settings, now, responses, observed, server_vars, saves>>

\* the outcomes of the collaborators that a call in state s can meet: the
\* code drawn and SMTP's answer matter to the email step alone, save's to
\* the last question alone
CodeDraws(s) ==
    IF s.state = "AWAITING_EMAIL" THEN IssuedCodes
    ELSE {CHOOSE c \in IssuedCodes : TRUE}

SmtpOutcomes(s) == IF s.state = "AWAITING_EMAIL" THEN BOOLEAN ELSE {TRUE}

SaveOutcomes(s) == IF s.state = "ASKING_QUESTION_3" THEN BOOLEAN ELSE {TRUE}

\* one inbound line: response = await state_machine.process_input(message)
ProcessInput ==
    /\ session.state # "WELCOME"
    /\ \E message \in Messages, code \in CodeDraws(session),
          smtp_ok \in SmtpOutcomes(session), save_ok \in SaveOutcomes(session) :
          LET out == process_input(session, message, now, settings.code_expiry_seconds,
                                   code, smtp_ok, save_ok)
          IN  /\ session' = out.session
              /\ call' = Called("process_input", message, now, session, out)
              /\ responses' = Stored(responses, out)
              /\ observed' = Observe(observed, session, message, now, out)
    /\ UNCHANGED <<settings, now, server_vars, saves>>

\* a clock with a background timer that retires an expired code by itself
Tick_BackgroundTimer ==
    /\ now < MaxTime
    /\ now' = now + 1
    /\ call' = NoCall
    /\ session' = IF session.state = "AWAITING_VERIFICATION"
                     /\ Expired(session.verification_code_created,
                                settings.code_expiry_seconds, now + 1)
                  THEN ExpiryReset(session) ELSE session
    /\ UNCHANGED <<settings, responses, observed, server_vars, saves>>

\* a second of wall-clock time passes between calls
Tick ==
    /\ now < MaxTime
    /\ now' = now + 1
    /\ call' = NoCall
    /\ UNCHANGED <<settings, session, responses, observed, server_vars, saves>>

Next == Welcome \/ ProcessInput \/ Tick

Spec == Init /\ [][Next]_vars

-----------------------------------------------------------------------------
(* LocalResponseRepository.save: a step per stretch of code between two
   awaits; `responses` is the content of responses.json *)

\* the server takes up no connection while the saves are looked at
StoreInit == Init /\ settings.code_length = DefaultCodeLength

\* a session completes: await self.response_repository.save(response)
SaveCalled(s) ==
    /\ saves[s].pc = "idle"
    /\ saves' = [saves EXCEPT ![s].pc = "reading"]
    /\ UNCHANGED <<settings, now, responses, machine_vars, server_vars>>

\* data = await self._read_all(): the content of the file at that moment,
\* the empty list for a missing or empty file
ReadAll(s) ==
    /\ saves[s].pc = "reading"
    /\ saves' = [saves EXCEPT ![s] = [pc |-> "opening", data |-> responses]]
    /\ UNCHANGED <<settings, now, responses, machine_vars, server_vars>>

\* async with aiofiles.open(self.file_path, "w"): the file is truncated
OpenForWrite(s) ==
    /\ saves[s].pc = "opening"
    /\ responses' = <<>>
    /\ saves' = [saves EXCEPT ![s].pc = "writing"]
    /\ UNCHANGED <<settings, now, machine_vars, server_vars>>

\* await f.write(json.dumps(data, ...)); save returns
WriteReturns(s) ==
    /\ saves[s].pc = "writing"
    /\ responses' = WriteAll(saves[s].data, ResponseOf(s))
    /\ saves' = [saves EXCEPT ![s] = [pc |-> "returned", data |-> <<>>]]
    /\ UNCHANGED <<settings, now, machine_vars, server_vars>>

StoreNext ==
    \E s \in Savers :
        \/ SaveCalled(s)
        \/ ReadAll(s)
        \/ OpenForWrite(s)
        \/ WriteReturns(s)

StoreSpec == StoreInit /\ [][StoreNext]_vars

-----------------------------------------------------------------------------
(* PollAgentsServer.handle_connection: one task per connection, a step per
   stretch of code between two awaits *)

\* the server starts with the verification settings' defaults and no connection
ServerInit == Init /\ settings.code_length = DefaultCodeLength

\* the connection c is accepted: the session is created and registered
Connect(c) ==
    /\ conns[c].pc = "idle"
    /\ conns' = [conns EXCEPT ![c] = [NotConnected EXCEPT !.pc = "get_active",
                                                          !.open = TRUE]]
    /\ active_sessions' = Register(active_sessions, c, c)
    /\ UNCHANGED <<settings, now, responses, machine_vars, saves>>

\* question_set = await self.question_set_repo.get_active() returns a
\* QuestionSet, returns None or raises; a QuestionSet is bound to the session
\* and get_welcome_message is called before the next await
GetActive(c) ==
    /\ conns[c].pc = "get_active"
    /\ \E result \in {"found", "none", "raises"} :
          LET conn == [conns[c] EXCEPT !.active = result]
          IN  conns' = [conns EXCEPT ![c] =
                  CASE result = "found" ->
                           [conn EXCEPT !.session = get_welcome_message(
                                            [@ EXCEPT !.question_set = ActiveQuestionSet]).session,
                                        !.did.welcome_calls = @ + 1,
                                        !.pc = "send_welcome"]
                    [] result = "none" -> [conn EXCEPT !.pc = "send_no_survey"]
                    [] OTHER -> Caught(conn)]
    /\ UNCHANGED <<settings, now, responses, machine_vars, saves, active_sessions>>

\* await websocket.send("No active question set available. ..."); return
SendNoSurvey(c) ==
    /\ conns[c].pc = "send_no_survey"
    /\ conns' = [conns EXCEPT ![c] =
           IF @.open THEN NoSurveyReturn([@ EXCEPT !.did.no_survey_sent = @ + 1])
           ELSE Caught(@)]
    /\ UNCHANGED <<settings, now, responses, machine_vars, saves, active_sessions>>

\* await websocket.send(welcome_msg)
SendWelcome(c) ==
    /\ conns[c].pc = "send_welcome"
    /\ conns' = [conns EXCEPT ![c] =
           IF @.open THEN [@ EXCEPT !.did.welcome_sent = @ + 1, !.pc = "read"]
           ELSE Caught(@)]
    /\ UNCHANGED <<settings, now, responses, machine_vars, saves, active_sessions>>

\* the loop takes a line of the agent and calls process_input, which runs up
\* to its first await (the email send, the save) or to its end
ReceiveLine(c, message) ==
    /\ Reading(conns[c])
    /\ conns[c].open
    /\ \E code \in CodeDraws(conns[c].session),
          smtp_ok \in SmtpOutcomes(conns[c].session),
          save_ok \in SaveOutcomes(conns[c].session) :
          LET s   == conns[c].session
              out == process_input(s, message, now, settings.code_expiry_seconds,
                                   code, smtp_ok, save_ok)
              fed == [conns[c] EXCEPT
                         !.did.read = TRUE,
                         !.did.fed_unready =
                             @ \/ s.state = "WELCOME" \/ s.question_set = NoQuestionSet,
                         !.did.fed_completed = @ \/ s.state = "COMPLETED",
                         !.did.fed_busy = @ \/ conns[c].pc # "read",
                         !.pending = out,
                         !.session = AtAwait(s, out)]
          IN  conns' = [conns EXCEPT ![c] =
                  CASE out.sent # <<>> -> [fed EXCEPT !.pc = "sending_email"]
                    [] out.saved # <<>> -> [fed EXCEPT !.pc = "saving"]
                    [] out.raised -> Caught([fed EXCEPT !.pending = NoOutcome])
                    [] OTHER -> [fed EXCEPT !.pc = "send_reply"]]
    /\ UNCHANGED <<settings, now, responses, machine_vars, saves, active_sessions>>

\* the agent of c sends any line
Receive(c) == \E message \in ServerMessages : ReceiveLine(c, message)

\* the line that takes a session in state s forward: a valid address, the
\* code stored for it, a valid answer
GoodLine(s) ==
    CASE s.state = "AWAITING_EMAIL" -> CHOOSE email \in ValidEmails : TRUE
      [] s.state = "AWAITING_VERIFICATION" -> s.verification_code
      [] OTHER -> <<"y">>

\* the agent of c, its session in the given state, sends the line that takes
\* it forward
Submit(c, state) ==
    /\ conns[c].session.state = state
    /\ ReceiveLine(c, GoodLine(conns[c].session))

\* await self.email_service.send_verification_email(email, code) returns,
\* delivered or not; the session moves to AWAITING_VERIFICATION
EmailReturns(c) ==
    /\ conns[c].pc = "sending_email"
    /\ conns' = [conns EXCEPT ![c] =
           [@ EXCEPT !.session = conns[c].pending.session, !.pc = "send_reply"]]
    /\ UNCHANGED <<settings, now, responses, machine_vars, saves, active_sessions>>

\* await self.response_repository.save(response) returns or raises
SaveReturns(c) ==
    /\ conns[c].pc = "saving"
    /\ responses' = Stored(responses, conns[c].pending)
    /\ conns' = [conns EXCEPT ![c] =
           IF @.pending.raised
           THEN Caught([@ EXCEPT !.did.save_failed = TRUE, !.pending = NoOutcome])
           ELSE [@ EXCEPT !.did.saved = TRUE, !.pc = "send_reply"]]
    /\ UNCHANGED <<settings, now, machine_vars, saves, active_sessions>>

\* if response: await websocket.send(response); then the COMPLETED test
SendReply(c) ==
    /\ conns[c].pc = "send_reply"
    /\ conns' = [conns EXCEPT ![c] =
           LET after == [@ EXCEPT !.pending = NoOutcome,
                                  !.did.sent_after_save_failed =
                                      IF @ = 0 /\ conns[c].did.save_failed
                                         /\ conns[c].pending.reply # EmptyPrompt
                                      THEN 1 ELSE @,
                                  !.pc = IF conns[c].session.state = "COMPLETED"
                                         THEN "send_summary" ELSE "read"]
           IN  IF @.pending.reply = EmptyPrompt \/ @.open THEN after
               ELSE Caught([@ EXCEPT !.pending = NoOutcome])]
    /\ UNCHANGED <<settings, now, responses, machine_vars, saves, active_sessions>>

\* summary = state_machine.get_summary(); await websocket.send(summary)
SendSummary(c) ==
    /\ conns[c].pc = "send_summary"
    /\ conns' = [conns EXCEPT ![c] =
           IF @.open THEN [@ EXCEPT !.did.summary_sent = @ + 1, !.pc = "close"]
           ELSE Caught(@)]
    /\ UNCHANGED <<settings, now, responses, machine_vars, saves, active_sessions>>

\* await websocket.close(1000, "Survey complete"); break
Close(c) ==
    /\ conns[c].pc = "close"
    /\ conns' = [conns EXCEPT ![c] = AfterSummary(@)]
    /\ UNCHANGED <<settings, now, responses, machine_vars, saves, active_sessions>>

\* the loop finds the connection closed: it ends, or the closure is raised
ReadClosed(c) ==
    /\ conns[c].pc = "read"
    /\ LoopEnds(conns[c].open)
    /\ \E raised \in BOOLEAN :
          conns' = [conns EXCEPT ![c] =
              IF raised THEN Caught(@) ELSE [@ EXCEPT !.pc = "finally"]]
    /\ UNCHANGED <<settings, now, responses, machine_vars, saves, active_sessions>>

\* finally: del self.active_sessions[session_id]; a missing key raises
\* KeyError out of handle_connection
Finally(c) ==
    /\ conns[c].pc = "finally"
    /\ IF c \in DOMAIN active_sessions
       THEN /\ active_sessions' = Unregister(active_sessions, c)
            /\ conns' = [conns EXCEPT ![c].did.deleted = @ + 1, ![c].pc = "done"]
       ELSE /\ active_sessions' = active_sessions
            /\ conns' = [conns EXCEPT ![c].error = "escaped", ![c].pc = "done"]
    /\ UNCHANGED <<settings, now, responses, machine_vars, saves>>

\* the agent or the network closes the transport, at any point of the handler
CloseTransport(c) ==
    /\ conns[c].pc \notin {"idle", "done"}
    /\ conns[c].open
    /\ conns' = [conns EXCEPT ![c].open = FALSE]
    /\ UNCHANGED <<settings, now, responses, machine_vars, saves, active_sessions>>

\* the steps the handler of c takes by itself, once started
HandlerStep(c) ==
    \/ GetActive(c)
    \/ SendNoSurvey(c)
    \/ SendWelcome(c)
    \/ EmailReturns(c)
    \/ SaveReturns(c)
    \/ SendReply(c)
    \/ SendSummary(c)
    \/ Close(c)
    \/ ReadClosed(c)
    \/ Finally(c)

ServerNext ==
    \E c \in Conns :
        \/ Connect(c)
        \/ Receive(c)
        \/ CloseTransport(c)
        \/ HandlerStep(c)

ServerSpec == ServerInit /\ [][ServerNext]_vars

\* the event loop runs every task that can run, and every awaited
\* collaborator call returns or raises
FairServerSpec == ServerSpec /\ \A c \in Conns : WF_vars(HandlerStep(c))

\* the agent that cooperates, and the states in which a line is awaited
CooperativeAgent == "c1"

InputStates == {"AWAITING_EMAIL", "AWAITING_VERIFICATION"} \cup AskingStates

\* an agent that never gets anywhere: every line it sends is a malformed
\* address
Stalls(c) == ReceiveLine(c, CHOOSE line \in ServerMessages : ~EMAIL_REGEX(line)
                                                            /\ line \notin IssuedCodes
                                                            /\ line # <<"y">>)

\* the server with one agent that sends whatever it likes and the others
\* stalling
CooperativeNext ==
    \E c \in Conns :
        \/ Connect(c)
        \/ c = CooperativeAgent /\ Receive(c)
        \/ c # CooperativeAgent /\ Stalls(c)
        \/ CloseTransport(c)
        \/ HandlerStep(c)

\* the handlers are run as above, and one agent cooperates: in each state,
\* if it is asked again and again it eventually sends the line that takes
\* the session forward; the other agents are under no obligation
CooperativeSpec ==
    /\ ServerInit /\ [][CooperativeNext]_vars
    /\ \A c \in Conns : WF_vars(HandlerStep(c))
    /\ \A state \in InputStates : SF_vars(Submit(CooperativeAgent, state))

-----------------------------------------------------------------------------
(* Properties *)

IsCall == call.op = "process_input"

\* the line of the last call, as process_input hands it to the handler
Line == strip(call.message)

Before == call.before

CalledIn(state) == IsCall /\ Before.state = state

\* the last call was evaluated after the code it met had expired
AfterExpiry == call.now > Before.verification_code_created + settings.code_expiry_seconds

\* the order WELCOME .. COMPLETED
Position(state) == CHOOSE i \in DOMAIN ConversationState : ConversationState[i] = state

\* C1: every change of session.state made by a call goes to the immediate
\* successor in the order WELCOME .. COMPLETED, except that a verification
\* input that meets an expired code, or that is the third wrong one, goes
\* from AWAITING_VERIFICATION back to AWAITING_EMAIL.
C1_LinearOrder ==
    call.op # "none" /\ session.state # Before.state =>
        \/ /\ session.state # "DISCONNECTED"
           /\ Position(session.state) = Position(Before.state) + 1
        \/ /\ IsCall
           /\ Before.state = "AWAITING_VERIFICATION"
           /\ session.state = "AWAITING_EMAIL"
           /\ \/ AfterExpiry
              \/ /\ Line # Before.verification_code
                 /\ observed.wrong = 3

\* a step back to the email step, taken by a wrong code past the deadline
C1_Witness ==
    /\ CalledIn("AWAITING_VERIFICATION")
    /\ session.state = "AWAITING_EMAIL"
    /\ AfterExpiry
    /\ Line # Before.verification_code

IsDigits(code) == \A i \in DOMAIN code : code[i] \in string_digits

\* C2: a line that matches the email pattern, submitted in AWAITING_EMAIL,
\* stores a code of exactly the configured length, all digits, records the
\* time of issue and leaves the session in AWAITING_VERIFICATION.
C2_CodeOfConfiguredLength ==
    CalledIn("AWAITING_EMAIL") /\ EMAIL_REGEX(call.message) =>
        /\ session.state = "AWAITING_VERIFICATION"
        /\ Len(session.verification_code) = settings.code_length
        /\ IsDigits(session.verification_code)
        /\ session.verification_code_created = call.now

\* C3: a line that the email pattern rejects, submitted in AWAITING_EMAIL,
\* leaves the session as it was (still AWAITING_EMAIL, no code, same email),
\* returns the format-error prompt and sends no mail.  The line is the one
\* _handle_email_input receives.
C3_MalformedEmailRejected ==
    CalledIn("AWAITING_EMAIL") /\ ~EMAIL_REGEX(Line) =>
        /\ session.state = "AWAITING_EMAIL"
        /\ session.verification_code = None
        /\ Before.verification_code = None
        /\ session.email = Before.email
        /\ call.reply = InvalidEmailPrompt
        /\ call.sent = <<>>

C3_Witness ==
    /\ CalledIn("AWAITING_EMAIL")
    /\ ~EMAIL_REGEX(Line)
    /\ Line # <<>>
    /\ session.email # None

\* C4: in AWAITING_VERIFICATION the stored code, evaluated no later than
\* issue time + code_expiry_seconds, moves the session to ASKING_QUESTION_1,
\* returns question 1 and does not count as an attempt.
C4_CorrectCodeInTime ==
    /\ CalledIn("AWAITING_VERIFICATION")
    /\ call.message = Before.verification_code
    /\ call.now <= Before.verification_code_created + settings.code_expiry_seconds
    => /\ session.state = "ASKING_QUESTION_1"
       /\ call.reply.kind = "verified"
       /\ call.reply.question = session.question_set.questions[1]
       /\ session.verification_attempts = Before.verification_attempts

C4_Witness ==
    /\ CalledIn("AWAITING_VERIFICATION")
    /\ call.message = Before.verification_code
    /\ call.now = Before.verification_code_created + settings.code_expiry_seconds
    /\ Before.verification_attempts = 2
    /\ session.state = "ASKING_QUESTION_1"

\* C5: in AWAITING_VERIFICATION any line evaluated later than issue time +
\* code_expiry_seconds is rejected, the stored code included: the session
\* returns to AWAITING_EMAIL with the code cleared and the attempts at 0.
C5_ExpiredRejected ==
    CalledIn("AWAITING_VERIFICATION") /\ AfterExpiry =>
        /\ session.state = "AWAITING_EMAIL"
        /\ session.verification_code = None
        /\ session.verification_attempts = 0
        /\ call.reply = CodeExpiredPrompt

C5_Witness ==
    /\ CalledIn("AWAITING_VERIFICATION")
    /\ AfterExpiry
    /\ call.message = Before.verification_code
    /\ Before.verification_attempts > 0
    /\ session.state = "AWAITING_EMAIL"

\* the last call was a wrong code submitted in time
WrongInTime ==
    /\ CalledIn("AWAITING_VERIFICATION")
    /\ ~AfterExpiry
    /\ Line # Before.verification_code

\* C6: the third wrong code submitted in time since the last code was
\* issued returns the session to AWAITING_EMAIL with the attempts at 0 and
\* the code cleared; the first and the second do not; and the count starts
\* again from 1 after a reset and a fresh valid email.
C6_LockoutOnThirdWrong ==
    WrongInTime =>
        /\ observed.wrong \in 1..3
        /\ observed.wrong = 3 =>
               /\ session.state = "AWAITING_EMAIL"
               /\ session.verification_attempts = 0
               /\ session.verification_code = None
        /\ observed.wrong < 3 =>
               /\ session.state = "AWAITING_VERIFICATION"
               /\ session.verification_attempts = observed.wrong
               /\ session.verification_code = Before.verification_code

\* the third wrong code, submitted at the deadline
C6_Witness ==
    /\ WrongInTime
    /\ observed.wrong = 3
    /\ Before.verification_attempts = 2
    /\ call.now = Before.verification_code_created + settings.code_expiry_seconds
    /\ session.state = "AWAITING_EMAIL"
    /\ session.verification_code = None

\* C7: the attempt counter is within 0..3 in every state; a wrong code
\* submitted in time that does not lock out adds exactly 1 to it, keeps the
\* session in AWAITING_VERIFICATION with the code and its issue time as
\* they were, and the prompt reports 3 minus the new counter as remaining.
C7_AttemptCounter ==
    /\ session.verification_attempts \in 0..3
    /\ WrongInTime /\ session.state # "AWAITING_EMAIL" =>
           /\ session.verification_attempts = Before.verification_attempts + 1
           /\ session.state = "AWAITING_VERIFICATION"
           /\ session.verification_code = Before.verification_code
           /\ session.verification_code_created = Before.verification_code_created
           /\ call.reply.kind = "incorrect_code"
           /\ call.reply.n = 3 - session.verification_attempts

C7_Witness ==
    /\ WrongInTime
    /\ session.state = "AWAITING_VERIFICATION"
    /\ session.verification_attempts = 2
    /\ call.reply.n = 1

\* C8: a session in AWAITING_EMAIL holds no pending code and has its attempt
\* counter at 0; a session in AWAITING_VERIFICATION, where codes are
\* compared, holds one; and a call stores a code only when it is a valid
\* email submitted in AWAITING_EMAIL, the code being the one it mailed.
C8_CodeOnlyFromValidEmail ==
    /\ session.state \in {"WELCOME", "AWAITING_EMAIL"} =>
           /\ session.verification_code = None
           /\ session.verification_attempts = 0
    /\ session.state = "AWAITING_VERIFICATION" =>
           /\ session.verification_code # None
           /\ session.verification_code_created # NoTime
    /\ call.op # "none" /\ session.verification_code # None
       /\ (session.verification_code # Before.verification_code
           \/ session.verification_code_created # Before.verification_code_created) =>
           /\ CalledIn("AWAITING_EMAIL")
           /\ EMAIL_REGEX(Line)
           /\ Len(call.sent) = 1
           /\ call.sent[1].code = session.verification_code
           /\ call.sent[1].to = session.email

\* back in AWAITING_EMAIL after an expiry, with wrong attempts made before
C8_Witness ==
    /\ CalledIn("AWAITING_VERIFICATION")
    /\ AfterExpiry
    /\ Before.verification_attempts = 2
    /\ Before.verification_code # None
    /\ session.state = "AWAITING_EMAIL"

\* Python's indices of the questions asked in the three asking states
QuestionIndex(state) ==
    CASE state = "ASKING_QUESTION_1" -> 0
      [] state = "ASKING_QUESTION_2" -> 1
      [] state = "ASKING_QUESTION_3" -> 2

Rejected ==
    /\ session = Before
    /\ call.saved = <<>>
    /\ ~call.raised
    /\ call.reply = InvalidAnswerPrompt(Question(Before.question_set, QuestionIndex(Before.state)))

\* C9 as stated: in the three asking states every raw line that is not one
\* of y, n, Y, N leaves the answers and the state as they were, saves
\* nothing and returns the validation error with the same question.
C9_RawLineRejected ==
    IsCall /\ Before.state \in AskingStates /\ call.message \notin ValidAnswers => Rejected

\* C9, amended: in the three asking states every line that, once leading
\* and trailing whitespace is stripped, is not one of y, n, Y, N leaves the
\* answers and the state as they were, saves nothing and returns the
\* validation error with the same question.
C9_StrippedLineRejected ==
    IsCall /\ Before.state \in AskingStates /\ Line \notin ValidAnswers => Rejected

C9_Witness ==
    /\ CalledIn("ASKING_QUESTION_3")
    /\ Line \notin ValidAnswers
    /\ Line # <<>>
    /\ DOMAIN session.answers = {0, 1}

\* C10: a valid answer moves each asking state to the next, and the third
\* one completes the session and hands save one AgentResponse whose answers
\* are, in question order, whether each accepted answer was a yes, with the
\* session's email and the bound QuestionSet's id.
C10_AnswersSavedInOrder ==
    /\ IsCall /\ Before.state \in AskingStates /\ Line \in ValidAnswers =>
           /\ Position(session.state) = Position(Before.state) + 1
           /\ Len(observed.given) = QuestionIndex(Before.state) + 1
    /\ CalledIn("ASKING_QUESTION_3") /\ Line \in ValidAnswers =>
           /\ session.state = "COMPLETED"
           /\ Len(call.saved) = 1
           /\ call.saved[1].answers = observed.given
           /\ call.saved[1].agent_email = session.email
           /\ call.saved[1].agent_email # None
           /\ call.saved[1].question_set_id = session.question_set.id

\* y, n, y gives [true, false, true], and the save returned
C10_Witness ==
    /\ CalledIn("ASKING_QUESTION_3")
    /\ session.state = "COMPLETED"
    /\ call.message = <<"y">>
    /\ observed.given = <<TRUE, FALSE, TRUE>>
    /\ call.saved[1].answers = <<TRUE, FALSE, TRUE>>
    /\ responses = call.saved

\* C11: over the life of a session save is called at most once, and only
\* by the call that moves the session from ASKING_QUESTION_3 to COMPLETED;
\* no line in another state, and no line after COMPLETED, causes a write.
C11_SingleSave ==
    /\ observed.saves <= 1
    /\ Len(responses) <= observed.saves
    /\ observed.saves = 1 => session.state = "COMPLETED"
    /\ call.op # "none" /\ call.saved # <<>> =>
           /\ CalledIn("ASKING_QUESTION_3")
           /\ session.state = "COMPLETED"
           /\ Len(call.saved) = 1
    /\ CalledIn("COMPLETED") =>
           /\ call.saved = <<>>
           /\ call.reply = SessionErrorPrompt
           /\ session = Before

\* a line sent after the session completed and its response was stored
C11_Witness ==
    /\ CalledIn("COMPLETED")
    /\ Line \in ValidAnswers
    /\ observed.saves = 1
    /\ Len(responses) = 1

\* C13: a valid email leaves the session in AWAITING_VERIFICATION with the
\* code and its issue time stored, and returns the same prompt, whether the
\* mail was delivered or not; the failed delivery does not raise.
C13_DeliveryFailureIgnored ==
    CalledIn("AWAITING_EMAIL") /\ EMAIL_REGEX(Line) =>
        /\ ~call.raised
        /\ Len(call.sent) = 1
        /\ call.sent[1].delivered \in BOOLEAN
        /\ session.state = "AWAITING_VERIFICATION"
        /\ session.verification_code = call.sent[1].code
        /\ session.verification_code # None
        /\ session.verification_code_created = call.now
        /\ call.reply = CodeSentPrompt(Line)

C13_Witness ==
    /\ CalledIn("AWAITING_EMAIL")
    /\ EMAIL_REGEX(Line)
    /\ ~call.sent[1].delivered
    /\ session.state = "AWAITING_VERIFICATION"

\* the last call moved the session to COMPLETED
MovedToCompleted == session.state = "COMPLETED" /\ Before.state # "COMPLETED"

-----------------------------------------------------------------------------
(* Properties of the server *)

\* the handler of c has started and has not reached the end of its finally
Running(c) == conns[c].pc \notin {"idle", "done"}

\* the handler of c has left handle_connection
Exited(c) == conns[c].pc = "done"

\* the entry of c is in the registry and refers to c's own session
Registered(c) == c \in DOMAIN active_sessions /\ active_sessions[c] = c

\* C12: when the final save raises, the agent receives a failure message:
\* no handler ends with its session in COMPLETED, no response stored for it
\* and nothing sent to the agent after the failure.
C12_SaveFailureSurfaced ==
    \A c \in Conns :
        ~ /\ Exited(c)
          /\ conns[c].session.state = "COMPLETED"
          /\ conns[c].did.save_failed
          /\ ~conns[c].did.saved
          /\ conns[c].did.sent_after_save_failed = 0

\* C14: on every exit path of handle_connection the session's entry is
\* removed from the registry exactly once, and no exception leaves
\* handle_connection: the entry is there as long as the handler runs, and gone
\* after one del once it has exited.
C14_RemovedExactlyOnce ==
    \A c \in Conns :
        /\ conns[c].did.deleted <= 1
        /\ conns[c].error # "escaped"
        /\ conns[c].pc = "idle" => c \notin DOMAIN active_sessions
        /\ Running(c) => Registered(c) /\ conns[c].did.deleted = 0
        /\ Exited(c) => c \notin DOMAIN active_sessions /\ conns[c].did.deleted = 1

\* one handler has exited on a save that raised, another after its summary
C14_Witness ==
    \E c, d \in Conns :
        /\ Exited(c) /\ conns[c].did.save_failed /\ conns[c].error = "caught"
        /\ Exited(d) /\ conns[d].did.summary_sent = 1 /\ conns[d].error = "none"
        /\ conns[c].did.deleted = 1 /\ conns[d].did.deleted = 1
        /\ active_sessions = NoSessions

\* C15: when get_active returns no QuestionSet, the handler sends the fixed
\* no-active-survey message, reads no line, never calls the state machine
\* (no welcome, session still WELCOME, no code, no mail, no save) and removes
\* the session from the registry.
C15_NoActiveSurvey ==
    \A c \in Conns :
        conns[c].active = "none" =>
            /\ conns[c].pc \in {"send_no_survey", "finally", "done"}
            /\ conns[c].session = NewSession
            /\ conns[c].pending = NoOutcome
            /\ ~conns[c].did.read
            /\ conns[c].did.welcome_calls = 0
            /\ conns[c].did.welcome_sent = 0
            /\ conns[c].did.summary_sent = 0
            /\ ~conns[c].did.saved /\ ~conns[c].did.save_failed
            /\ conns[c].did.no_survey_sent <= 1
            /\ conns[c].pc # "send_no_survey" /\ conns[c].error = "none" =>
                   conns[c].did.no_survey_sent = 1
            /\ Exited(c) => c \notin DOMAIN active_sessions /\ conns[c].did.deleted = 1

C15_Witness ==
    \E c \in Conns :
        /\ conns[c].active = "none"
        /\ Exited(c)
        /\ conns[c].did.no_survey_sent = 1
        /\ conns[c].error = "none"
        /\ c \notin DOMAIN active_sessions

\* C16: when process_input returns with the session in COMPLETED, the handler
\* sends the summary exactly once, after save has returned, then closes the
\* connection and leaves the loop: no line is fed to a COMPLETED session, and
\* no summary is sent for a session that is not COMPLETED.
C16_SummaryOnceWhenCompleted ==
    \A c \in Conns :
        /\ conns[c].did.summary_sent <= 1
        /\ conns[c].did.summary_sent = 1 =>
               /\ conns[c].session.state = "COMPLETED"
               /\ conns[c].did.saved
               /\ conns[c].pc \in {"close", "finally", "done"}
        /\ conns[c].pc = "send_summary" =>
               /\ conns[c].session.state = "COMPLETED"
               /\ conns[c].did.saved
               /\ conns[c].did.summary_sent = 0
        /\ conns[c].pc = "close" => conns[c].did.summary_sent = 1
        /\ conns[c].pc = "read" => conns[c].session.state # "COMPLETED"
        /\ ~conns[c].did.fed_completed
        /\ Exited(c) /\ conns[c].did.saved /\ conns[c].error = "none" =>
               conns[c].did.summary_sent = 1 /\ ~conns[c].open

C16_Witness ==
    \E c \in Conns :
        /\ Exited(c)
        /\ conns[c].session.state = "COMPLETED"
        /\ conns[c].did.saved
        /\ conns[c].did.summary_sent = 1
        /\ ~conns[c].open

\* C17: for a connection that finds an active QuestionSet, get_welcome_message
\* is called exactly once, after the QuestionSet is bound and before the first
\* line is read, and moves the session from WELCOME to AWAITING_EMAIL:
\* process_input is never called on a session in WELCOME or without a
\* QuestionSet.
C17_WelcomeOnceBeforeRead ==
    \A c \in Conns :
        /\ conns[c].did.welcome_calls <= 1
        /\ conns[c].active = "found" =>
               /\ conns[c].did.welcome_calls = 1
               /\ conns[c].session.question_set = ActiveQuestionSet
               /\ conns[c].session.state # "WELCOME"
        /\ conns[c].active # "found" =>
               /\ conns[c].did.welcome_calls = 0
               /\ conns[c].session = NewSession
        /\ conns[c].pc = "send_welcome" =>
               ~conns[c].did.read /\ conns[c].session.state = "AWAITING_EMAIL"
        /\ conns[c].did.read =>
               conns[c].did.welcome_calls = 1 /\ conns[c].did.welcome_sent = 1
        /\ ~conns[c].did.fed_unready

C17_Witness ==
    \E c \in Conns :
        /\ conns[c].active = "found"
        /\ conns[c].did.read
        /\ conns[c].did.welcome_calls = 1
        /\ conns[c].pc = "sending_email"

\* the registry entry of c, if there is one
Entry(c) == IF c \in DOMAIN active_sessions THEN active_sessions[c] ELSE "absent"

\* C19: whatever the interleaving of the connections' steps, a step of one
\* connection's handler changes no field of another connection's session and
\* neither adds, replaces nor removes another connection's registry entry.
C19_NoCrossSessionEffect ==
    [][\A c, d \in Conns :
           c # d /\ conns'[c] # conns[c] =>
               /\ conns'[d].session = conns[d].session
               /\ Entry(d)' = Entry(d)]_vars

\* both handlers are in the middle of a step, one saving, one sending mail
C19_Witness ==
    \E c, d \in Conns :
        /\ conns[c].pc = "saving"
        /\ conns[d].pc = "sending_email"
        /\ Registered(c) /\ Registered(d)

\* C20: once the transport of a running handler is closed, in the middle of
\* a step or between steps, the session is eventually removed from the
\* registry, in whatever state it was.
C20_ClosedLeadsToRemoval ==
    \A c \in Conns :
        (Running(c) /\ ~conns[c].open) ~> (Exited(c) /\ c \notin DOMAIN active_sessions)

\* the transport is closed while the email send is in progress
C20_Witness ==
    \E c \in Conns :
        /\ conns[c].pc = "sending_email"
        /\ ~conns[c].open
        /\ Registered(c)

-----------------------------------------------------------------------------
(* Further properties of the state machine *)

\* C21: expiry is enforced only when a verification input is evaluated: a
\* step in which time passes changes nothing of the session or of the stored
\* responses, and the session changes only in a step that is a call of the
\* state machine on it; no state has a timeout on waiting for input.
C21_TimeAloneChangesNothing ==
    [][/\ now' # now => session' = session /\ responses' = responses
       /\ session' # session => call'.op # "none" /\ call'.before = session]_vars

\* the code expired a while ago and no line has come: the session still
\* waits in AWAITING_VERIFICATION with its code and counter
C21_Witness ==
    /\ call = NoCall
    /\ session.state = "AWAITING_VERIFICATION"
    /\ session.verification_code # None
    /\ session.verification_attempts = 2
    /\ now > session.verification_code_created + settings.code_expiry_seconds

\* C22 as stated: once session.email holds a value, no later input changes it.
C22_EmailSetOnce ==
    IsCall /\ Before.email # None => session.email = Before.email

\* C22: session.email is assigned only from a line that passed email
\* validation in AWAITING_EMAIL, and no other input changes or clears it; the
\* expiry and lockout resets leave it, and the address validated after a
\* reset replaces it.
C22_EmailOnlyFromValidatedInput ==
    /\ session.email # None => EMAIL_REGEX(session.email)
    /\ IsCall /\ session.email # Before.email =>
           /\ CalledIn("AWAITING_EMAIL")
           /\ EMAIL_REGEX(Line)
           /\ session.email = Line
    /\ IsCall /\ Before.email # None => session.email # None
    /\ IsCall /\ Before.state = "AWAITING_VERIFICATION"
          /\ session.state = "AWAITING_EMAIL" => session.email = Before.email

\* after a reset, another validated address has replaced the first
C22_Witness ==
    /\ CalledIn("AWAITING_EMAIL")
    /\ Before.email # None
    /\ EMAIL_REGEX(Line)
    /\ session.email = Line
    /\ session.email # Before.email

\* C23: a COMPLETED session holds an answer for each of the indices 0, 1 and
\* 2, so the summary rendered for it never falls back on its default; in
\* ASKING_QUESTION_k the mapping holds exactly the indices of the questions
\* before the k-th, before the questions it is empty, and no call changes an
\* answer already recorded.
C23_AnswersComplete ==
    /\ session.state = "COMPLETED" =>
           /\ DOMAIN session.answers = {0, 1, 2}
           /\ \A k \in DOMAIN get_summary(session) :
                  /\ ~get_summary(session)[k].missing
                  /\ get_summary(session)[k].yes = session.answers[k - 1]
    /\ session.state \in AskingStates =>
           DOMAIN session.answers = 0..(QuestionIndex(session.state) - 1)
    /\ session.state \in {"WELCOME", "AWAITING_EMAIL", "AWAITING_VERIFICATION"} =>
           session.answers = NoAnswers
    /\ IsCall =>
           \A j \in DOMAIN Before.answers :
               j \in DOMAIN session.answers /\ session.answers[j] = Before.answers[j]

\* the last answer has completed a session that answered n, y, n
C23_Witness ==
    /\ CalledIn("ASKING_QUESTION_3")
    /\ session.state = "COMPLETED"
    /\ DOMAIN session.answers = {0, 1, 2}
    /\ ~session.answers[0] /\ session.answers[1] /\ ~session.answers[2]
    /\ Len(get_summary(session)) = 3

\* the states that lie behind the verification step
VerifiedStates == AskingStates \cup {"COMPLETED"}

\* C25: verification cannot be bypassed: a session is in ASKING_QUESTION_1,
\* ASKING_QUESTION_2, ASKING_QUESTION_3 or COMPLETED only if an earlier line
\* of it was equal to the code then in force and was evaluated before that
\* code expired, and the agent_email of every response handed to save or
\* stored is the address that code was mailed to.
C25_VerificationNotBypassed ==
    /\ session.state \in VerifiedStates =>
           /\ observed.verified # None
           /\ observed.verified = session.email
    /\ call.op # "none" =>
           \A i \in DOMAIN call.saved : call.saved[i].agent_email = observed.verified
    /\ \A i \in DOMAIN responses :
           /\ responses[i].agent_email # None
           /\ responses[i].agent_email = observed.verified

\* a response is stored for the second address entered, whose code was
\* matched after the first address's code was locked out
C25_Witness ==
    /\ Len(responses) = 1
    /\ responses[1].agent_email = <<"c", "@", "d", ".", "i", "o">>
    /\ observed.verified = responses[1].agent_email
    /\ session.state = "COMPLETED"

-----------------------------------------------------------------------------
(* Further properties of the server *)

\* C24: a session torn down by handle_connection, at whatever point of the
\* conversation, is in the DISCONNECTED state once the handler has exited.
C24_TornDownMarkedDisconnected ==
    \A c \in Conns : Exited(c) => conns[c].session.state = "DISCONNECTED"

\* the connections whose handler has started and not yet finished
LiveHandlers == {c \in Conns : Running(c)}

\* C27: in every reachable state of the server the registry's keys are
\* exactly the session identifiers of the live handlers: each live connection
\* has one entry, which refers to its own session, no two entries refer to
\* the same session, and there are as many entries as live handlers.
C27_RegistryIsLiveHandlers ==
    /\ DOMAIN active_sessions = LiveHandlers
    /\ \A id \in DOMAIN active_sessions : active_sessions[id] = id
    /\ \A id, other \in DOMAIN active_sessions :
           active_sessions[id] = active_sessions[other] => id = other
    /\ Cardinality(DOMAIN active_sessions) = Cardinality(LiveHandlers)

\* one handler has exited while the other is in its conversation
C27_Witness ==
    \E c, d \in Conns :
        /\ Exited(c)
        /\ conns[d].pc = "read"
        /\ conns[d].session.state = "ASKING_QUESTION_2"
        /\ DOMAIN active_sessions = {d}
        /\ active_sessions[d] = d

\* the handler is inside a call of process_input or writing its reply
InCall(c) == conns[c].pc \in {"sending_email", "saving", "send_reply"}

Hindered(c) ==
    \/ conns[c].active # "found"
    \/ conns[c].error = "caught"
    \/ conns[c].did.summary_sent = 0 /\ ~conns[c].open

\* the conversation of c has run to its end
Concluded(c) ==
    /\ conns[c].session.state = "COMPLETED"
    /\ conns[c].did.saved
    /\ conns[c].did.summary_sent = 1
    /\ ~conns[c].open

\* C29: progress: the handler of an agent that eventually sends a valid
\* address, then the code, then three valid answers eventually exits with
\* its session removed from the registry, and, unless there was no active
\* QuestionSet, a collaborator raised or the transport was closed, with the
\* session COMPLETED, the summary sent and the connection closed by the
\* handler; whatever the other connection does or fails to do.
C29_CooperationLeadsToCompletion ==
    conns[CooperativeAgent].pc = "get_active" ~>
        /\ Exited(CooperativeAgent)
        /\ CooperativeAgent \notin DOMAIN active_sessions
        /\ Hindered(CooperativeAgent) \/ Concluded(CooperativeAgent)

\* the cooperative agent's conversation has run to its end while the other
\* session still waits for an address
C29_Witness ==
    /\ Exited(CooperativeAgent)
    /\ Concluded(CooperativeAgent)
    /\ ~Hindered(CooperativeAgent)
    /\ \E d \in Conns \ {CooperativeAgent} :
           conns[d].pc = "read" /\ conns[d].session.state = "AWAITING_EMAIL"

-----------------------------------------------------------------------------
(* Properties of the flat-file response store *)

\* no call of save is between its first and its last step
NoSaveInProgress == \A s \in Savers : saves[s].pc \in {"idle", "returned"}

\* C26: when several sessions complete concurrently against the flat file,
\* every response whose save returned is in the file once all saves have
\* finished: no interleaving of the read-all, append and write-all steps of
\* two saves loses a response.
C26_NoLostResponse ==
    NoSaveInProgress =>
        \A s \in Savers :
            saves[s].pc = "returned" => ResponseOf(s) \in Range(responses)

=============================================================================
